---- MODULE Spec2Model ----
(***************************************************************************)
(* Gesture-driven mode state machine and photo capture state machine of    *)
(* src/App.tsx (the App component), as a state machine.                    *)
(*                                                                         *)
(* React state (useState) is modelled by two copies: the current value     *)
(* (what the next render will see) and the value of the last committed     *)
(* render (what the closures of that render, e.g. the onClick handler and  *)
(* the effects, see).  Refs (useRef) are plain variables.  The main effect *)
(* runs once, so predictLoop calls the triggerCountdown of the FIRST       *)
(* render, whose captureState is 'IDLE' for ever.                          *)
(*                                                                         *)
(* Time is in milliseconds.  Date.now() - lastCaptureTimeRef.current is    *)
(* kept as the clock sinceCapture, saturated at the largest value the code *)
(* compares it with.  Timers (setTimeout) are records with the time left.  *)
(***************************************************************************)
EXTENDS Integers, Sequences, FiniteSets, TLC

----------------------------------------------------------------------------
(* Program constants *)

TRIGGER_COOLDOWN_MS == 4000
DETECT_COOLDOWN_MS == 2000
COUNTDOWN_START == 3
COUNTDOWN_TICK_MS == 1000
FLASH_MS == 150
FLY_MS == 4500
IDLE_MS == 1000
L_HOLD_FRAMES == 30
PINCH_HOLD_FRAMES == 15
BOOT_READY_MS == 500
BOOT_FAIL_MS == 2000
Null == -1

(* Bounds of the model *)

MaxPhotos == 2
MaxLHold == 32
MaxPinchHold == 17
MaxMixedPinch == 2
MaxClassifiedRun == 2

----------------------------------------------------------------------------
(* Types *)

AppMode == {"LOADING", "SCATTER", "TREE", "TEXT"}
CaptureState == {"IDLE", "COUNTDOWN", "FLASH", "DEVELOPING", "FLYING"}
GestureType == {"NONE", "PINCH", "FIST", "L_SHAPE", "OPEN_PALM", "THUMBS_UP"}

Min(a, b) == IF a <= b THEN a ELSE b

VARIABLES
    modeRef,            \* modeRef.current (appMode is set with it)
    captureState,       \* useState captureState: current value
    countdown,          \* useState countdown: current value, Null for null
    rCaptureState,      \* captureState seen by the last committed render
    rCountdown,         \* countdown seen by the last committed render
    effectsPending,     \* the last commit's passive effects have not run yet
    captureStateRef,    \* captureStateRef.current
    sinceCapture,       \* Date.now() - lastCaptureTimeRef.current, saturated
    lShapeHoldTime,     \* lShapeHoldTimeRef.current
    pinchHoldTime,      \* pinchHoldTimeRef.current
    gestureRef,         \* gestureRef.current
    holdBar,            \* holdBarRef width, in 1/30 of a percent
    zoomedPhoto,        \* zoomedPhotoRef.current: index into photos, 0 = null
    previewingPhoto,    \* previewingPhotoRef.current: index into photos, 0 = null
    photos,             \* the isPhoto particles of particlesRef, in push order
    particles,          \* particlesRef.current: the vectors each particle holds
    vectors,            \* the THREE.Vector3 objects, by identity: their coordinate
    isMounted,          \* isMountedRef.current (the component is mounted)
    landmarker,         \* landmarkerRef.current is set
    boot,               \* progress of startSystem
    timers,             \* pending setTimeout callbacks
    sinceTrigger,       \* history: time since the last countdown start
    sinceTake,          \* history: time since the last takePhoto
    lInterrupted,       \* history: lShapeHoldTime counts frames of more than one run
    nStarts,            \* history: countdowns started
    nTakes,             \* history: calls of takePhoto that passed its guard
    ev,                 \* history: what the last step did
    hand,               \* the landmark predicates of the last classified frame
    animateRaf,         \* the frame request named by frameIdRef is pending
    predictRaf,         \* the frame request named by predictRef is pending
    groupTurn,          \* mainGroup.rotation.y, in half turns
    totalParticles,     \* scene construction: the number of particles it creates
    constructAt,        \* scene construction: where it stands
    vavePoints,         \* the array of text points, each a vector with its identity
    vaveBefore,         \* history: vavePoints as getVavePoints returned it
    shuffleAt,          \* the loop variable i of the shuffle, counted from 1
    vaveIndex,          \* vaveIndex
    textPosOf,          \* the textPos handed to each particle, with the slot it came from
    lFramesSinceFly     \* history: L_SHAPE frames processed since the last fly sequence

vars == <<modeRef, captureState, countdown, rCaptureState, rCountdown,
          effectsPending, captureStateRef, sinceCapture, lShapeHoldTime,
          pinchHoldTime, gestureRef, holdBar, zoomedPhoto, previewingPhoto,
          photos, particles, vectors, isMounted, landmarker, boot, timers,
          sinceTrigger, sinceTake, lInterrupted, nStarts, nTakes, ev, hand,
          animateRaf, predictRaf, groupTurn, totalParticles, constructAt, vavePoints,
          vaveBefore, shuffleAt, vaveIndex, textPosOf, lFramesSinceFly>>

reactVars == <<captureState, countdown, rCaptureState, rCountdown,
               effectsPending, captureStateRef>>
gestureVars == <<lShapeHoldTime, pinchHoldTime, gestureRef, holdBar, zoomedPhoto>>
photoVars == <<previewingPhoto, photos, particles, vectors>>
bootVars == <<landmarker, boot>>
histVars == <<sinceTrigger, sinceTake, lInterrupted, nStarts, nTakes>>
sceneVars == <<hand, animateRaf, predictRaf, groupTurn>>
constructVars == <<totalParticles, constructAt, vavePoints, vaveBefore, shuffleAt,
                   vaveIndex, textPosOf>>
holdHist == <<lFramesSinceFly>>

(* A text point: a Vector3 object (id) and the pixel it stands on (0 for the
   origin). *)
Point(id, at) == [id |-> id, at |-> at]

(* Positions are points of the z axis, in steps of 25 scene units; the two
   fixed world points lie on it.  The shared vectors of lines 18-31 have the
   first three identities.  The group turns about the y axis, and the model
   looks at it at whole half turns, which map the axis onto itself. *)
tempV1 == 1
ZOOM_POS == 2
PREVIEW_WORLD_POS == 3

(* Object3D.worldToLocal for a group that has made turn half turns. *)
worldToLocal(w, turn) == IF turn % 2 = 1 THEN -w ELSE w

(* Where the targets of the i-th particle lie: the tree stands at the
   origin, the text in front of it, the scattered cloud around both. *)
TreeAt(i) == 0
TextAt(i) == 1
ScatterAt(i) == 2

(* Mutant: the mesh is positioned at the scatter vector itself, not at a
   copy of it. *)
NewParticle_SharedScatter(n, photo) ==
    [position |-> n + 1, treePos |-> n + 2, scatterPos |-> n + 1,
     textPos |-> n + 4, photo |-> photo]

(* A particle as pushed: its mesh.position and its three targets are four
   vectors of their own, allocated at n + 1 .. n + 4. *)
NewParticle(n, photo) ==
    [position |-> n + 1, treePos |-> n + 2, scatterPos |-> n + 3,
     textPos |-> n + 4, photo |-> photo]

(* The predicates the classifier computes from the landmarks (lines 603-624).
   Before the first frame gestureRef is NONE: the hand of a lone extended
   index finger, which the classifier gives NONE for, stands for that. *)
NoLandmarks ==
    [pinchClose |-> FALSE, iE |-> TRUE, mE |-> FALSE, rE |-> FALSE, pE |-> FALSE,
     tE |-> FALSE, tE_Legacy |-> FALSE, thumbPointingUp |-> FALSE]

(* The history clock saturates once a whole capture has gone by. *)
ClockCap == COUNTDOWN_START * COUNTDOWN_TICK_MS + FLY_MS + IDLE_MS

Timer(kind, ms, p) == [kind |-> kind, rem |-> ms, photo |-> p]

----------------------------------------------------------------------------
Mounted ==
    /\ modeRef = "LOADING"
    /\ captureState = "IDLE"
    /\ countdown = Null
    /\ rCaptureState = "IDLE"
    /\ rCountdown = Null
    /\ effectsPending = FALSE
    /\ captureStateRef = "IDLE"
    /\ sinceCapture = TRIGGER_COOLDOWN_MS
    /\ lShapeHoldTime = 0
    /\ lFramesSinceFly = 0
    /\ pinchHoldTime = 0
    /\ gestureRef = "NONE"
    /\ holdBar = 0
    /\ zoomedPhoto = 0
    /\ previewingPhoto = 0
    /\ photos = <<>>
    /\ particles = <<NewParticle(3, 0)>>
    /\ vectors = <<0, 2, 3, ScatterAt(1), TreeAt(1), ScatterAt(1), TextAt(1)>>
    /\ isMounted = TRUE
    /\ landmarker = FALSE
    /\ boot = "starting"
    /\ timers = {}
    /\ sinceTrigger = ClockCap
    /\ sinceTake = ClockCap
    /\ lInterrupted = FALSE
    /\ nStarts = 0
    /\ nTakes = 0
    /\ ev = "init"
    /\ hand = NoLandmarks
    /\ animateRaf = TRUE
    /\ predictRaf = TRUE
    /\ groupTurn = 0

(* The state after the main effect has run: the scene is built, with one
   particle standing for the ornaments, and both tasks are started. *)
Init ==
    /\ Mounted
    /\ totalParticles = 1
    /\ constructAt = "done"
    /\ vavePoints = <<Point(1, TextAt(1))>>
    /\ vaveBefore = <<Point(1, TextAt(1))>>
    /\ shuffleAt = 1
    /\ vaveIndex = 1
    /\ textPosOf = <<[slot |-> 1, point |-> Point(1, TextAt(1))]>>

----------------------------------------------------------------------------
(* React plumbing *)

(* A state setter called after unmount changes nothing. *)
SetState(old, new) == IF isMounted THEN new ELSE old

RenderPending == <<captureState, countdown>> # <<rCaptureState, rCountdown>>

(* Zero-time work that runs before the clock moves on. *)
Busy == isMounted /\ (RenderPending \/ effectsPending)

(* The component re-renders: the closures of the new render see the current
   state.  Passive effects of the previous commit are flushed first. *)
Render ==
    /\ isMounted
    /\ RenderPending
    /\ ~effectsPending
    /\ rCaptureState' = captureState
    /\ rCountdown' = countdown
    /\ effectsPending' = TRUE
    /\ ev' = "other"
    /\ UNCHANGED <<modeRef, captureState, countdown, captureStateRef, sinceCapture,
                   gestureVars, photoVars, isMounted, bootVars, timers, histVars>>

----------------------------------------------------------------------------
(* Photography logic *)

(* Mutant: triggerCountdown without its IDLE guard. *)
TriggerAccepts_NoIdleGuard(cs) == ~(sinceCapture < TRIGGER_COOLDOWN_MS)

(* Mutant: triggerCountdown without its cooldown guard. *)
TriggerAccepts_NoCooldown(cs) == cs = "IDLE"

(* Mutant: triggerCountdown guards only against a running countdown. *)
TriggerAccepts_NotCountingDown(cs) ==
    /\ cs # "COUNTDOWN"
    /\ ~(sinceCapture < TRIGGER_COOLDOWN_MS)

(* triggerCountdown of a render whose captureState is cs: both guards pass. *)
TriggerAccepts(cs) ==
    /\ cs = "IDLE"
    /\ ~(sinceCapture < TRIGGER_COOLDOWN_MS)

(* triggerCountdown: its writes to captureState and countdown, and the
   history of countdown starts. *)
triggerCountdown(cs) ==
    IF TriggerAccepts(cs)
    THEN /\ captureState' = SetState(captureState, "COUNTDOWN")
         /\ countdown' = SetState(countdown, COUNTDOWN_START)
         /\ IF captureState = "IDLE" /\ isMounted
            THEN sinceTrigger' = 0 /\ nStarts' = nStarts + 1
            ELSE UNCHANGED <<sinceTrigger, nStarts>>
    ELSE UNCHANGED <<captureState, countdown, sinceTrigger, nStarts>>

(* The Snap button: onClick={triggerCountdown} of the last committed render. *)
ManualTrigger ==
    /\ isMounted
    /\ Len(photos) < MaxPhotos
    /\ triggerCountdown(rCaptureState)
    /\ ev' = (IF ~TriggerAccepts(rCaptureState) THEN "manualReject"
              ELSE IF captureState = "IDLE" THEN "manualAccept" ELSE "manualStale")
    /\ UNCHANGED <<modeRef, rCaptureState, rCountdown, effectsPending, captureStateRef,
                   sinceCapture, gestureVars, photoVars, isMounted, bootVars, timers,
                   sinceTake, lInterrupted, nTakes>>

(* Line 251: the video has no frame to draw.  Certain until getUserMedia has
   resolved, when no stream is attached to the element (line 684). *)
NoCameraFrame == boot = "starting"

(* The guard of takePhoto (line 230).  mainGroupRef and cameraRef are set by
   the main effect and never cleared; videoRef is the <video> element, which
   every render holds, so it is null only once the component is unmounted. *)
ResourcesPresent == isMounted

(* Mutant: the 4500 ms timer is started by the 150 ms one. *)
CaptureTimers_Nested(p) ==
    {Timer("develop", FLASH_MS, p), Timer("fly", FLASH_MS + FLY_MS, p)}

(* The two timers takePhoto starts for the particle it pushed. *)
CaptureTimers(p) == {Timer("develop", FLASH_MS, p), Timer("fly", FLY_MS, p)}

(* Mutant: takePhoto without particlesRef.current.push(newP). *)
takePhoto_NoPush ==
    /\ captureState' = SetState(captureState, "FLASH")
    /\ countdown' = SetState(countdown, Null)
    /\ photos' = Append(photos, [visible |-> FALSE])
    /\ previewingPhoto' = Len(photos) + 1
    /\ particles' = particles
    /\ vectors' = [vectors EXCEPT
                         ![tempV1] = worldToLocal(vectors[PREVIEW_WORLD_POS], groupTurn)]
                     \o <<worldToLocal(vectors[PREVIEW_WORLD_POS], groupTurn),
                          TreeAt(Len(particles) + 1),
                          ScatterAt(Len(particles) + 1), TextAt(Len(particles) + 1)>>
    /\ timers' = {t \in timers : t.kind # "tick"} \cup CaptureTimers(Len(photos) + 1)
    /\ nTakes' = nTakes + 1
    /\ sinceTake' = 0

(* takePhoto past its guard: the new particle is pushed hidden and becomes
   the previewed capture, and the two timers are started. *)
takePhoto ==
    /\ captureState' = SetState(captureState, "FLASH")
    /\ countdown' = SetState(countdown, Null)
    /\ photos' = Append(photos, [visible |-> FALSE])
    /\ previewingPhoto' = Len(photos) + 1
    /\ particles' = Append(particles, NewParticle(Len(vectors), Len(photos) + 1))
    /\ vectors' = [vectors EXCEPT
                         ![tempV1] = worldToLocal(vectors[PREVIEW_WORLD_POS], groupTurn)]
                     \o <<worldToLocal(vectors[PREVIEW_WORLD_POS], groupTurn),
                          TreeAt(Len(particles) + 1),
                          ScatterAt(Len(particles) + 1), TextAt(Len(particles) + 1)>>
    /\ timers' = {t \in timers : t.kind # "tick"} \cup CaptureTimers(Len(photos) + 1)
    /\ nTakes' = nTakes + 1
    /\ sinceTake' = 0

(* Mutant: the capture-state ref is never synced. *)
SyncRef_Never == captureStateRef' = captureStateRef

(* useEffect(() => { captureStateRef.current = captureState; }, [captureState]) *)
SyncRef == captureStateRef' = rCaptureState

(* The passive effects of the last commit, in declaration order: the ref
   sync (line 198), then the countdown effect (lines 218-227), whose cleanup
   clears the timer of its previous run. *)
RunEffects ==
    /\ isMounted
    /\ effectsPending
    /\ effectsPending' = FALSE
    /\ SyncRef
    /\ IF rCaptureState = "COUNTDOWN" /\ rCountdown # Null
       THEN IF rCountdown > 0
            THEN /\ timers' = {t \in timers : t.kind # "tick"}
                                \cup {Timer("tick", COUNTDOWN_TICK_MS, 0)}
                 /\ ev' = "other"
                 /\ UNCHANGED <<captureState, countdown, photoVars, nTakes, sinceTake>>
            ELSE IF ResourcesPresent
                 THEN /\ takePhoto
                      /\ ev' = "takePhoto"
                 ELSE /\ timers' = {t \in timers : t.kind # "tick"}
                      /\ ev' = "other"
                      /\ UNCHANGED <<captureState, countdown, photoVars, nTakes,
                                     sinceTake>>
       ELSE /\ timers' = {t \in timers : t.kind # "tick"}
            /\ ev' = "other"
            /\ UNCHANGED <<captureState, countdown, photoVars, nTakes, sinceTake>>
    /\ UNCHANGED <<modeRef, rCaptureState, rCountdown, sinceCapture, gestureVars,
                   isMounted, bootVars, sinceTrigger, lInterrupted, nStarts>>

(* Mutant: the tick takes two off the countdown. *)
CountdownTick_SkipsOne(t) ==
    /\ t.kind = "tick"
    /\ countdown' = SetState(countdown, IF countdown > 1 THEN countdown - 2 ELSE 0)
    /\ timers' = timers \ {t}
    /\ ev' = "other"
    /\ UNCHANGED <<modeRef, captureState, rCaptureState, rCountdown, effectsPending,
                   captureStateRef, sinceCapture, gestureVars, photoVars, isMounted,
                   bootVars, histVars>>

(* setTimeout(() => setCountdown(c => (c !== null ? c - 1 : 0)), 1000) *)
CountdownTick(t) ==
    /\ t.kind = "tick"
    /\ countdown' = SetState(countdown, IF countdown # Null THEN countdown - 1 ELSE 0)
    /\ timers' = timers \ {t}
    /\ ev' = "other"
    /\ UNCHANGED <<modeRef, captureState, rCaptureState, rCountdown, effectsPending,
                   captureStateRef, sinceCapture, gestureVars, photoVars, isMounted,
                   bootVars, histVars>>

(* The 150 ms timer of takePhoto. *)
DevelopTimer(t) ==
    /\ t.kind = "develop"
    /\ captureState' = SetState(captureState, "DEVELOPING")
    /\ timers' = timers \ {t}
    /\ ev' = "other"
    /\ UNCHANGED <<modeRef, countdown, rCaptureState, rCountdown, effectsPending,
                   captureStateRef, sinceCapture, gestureVars, photoVars, isMounted,
                   bootVars, histVars>>

(* Mutant: the fly sequence shows the photo and keeps the preview lock. *)
FlyTimer_KeepsLock(t) ==
    /\ t.kind = "fly"
    /\ captureState' = SetState(captureState, "FLYING")
    /\ photos' = [photos EXCEPT ![t.photo].visible = TRUE]
    /\ UNCHANGED <<previewingPhoto, particles, vectors>>
    /\ sinceCapture' = 0
    /\ gestureRef' = "NONE"
    /\ lShapeHoldTime' = 0
    /\ timers' = (timers \ {t}) \cup {Timer("idle", IDLE_MS, t.photo)}
    /\ ev' = "other"
    /\ lInterrupted' = FALSE
    /\ UNCHANGED <<modeRef, countdown, rCaptureState, rCountdown, effectsPending,
                   captureStateRef, pinchHoldTime, holdBar, zoomedPhoto, isMounted,
                   bootVars, sinceTrigger, sinceTake, nStarts, nTakes>>

(* Mutant: the fly sequence leaves the L-shape hold counter as it is. *)
FlyTimer_KeepsHold(t) ==
    /\ t.kind = "fly"
    /\ captureState' = SetState(captureState, "FLYING")
    /\ photos' = [photos EXCEPT ![t.photo].visible = TRUE]
    /\ previewingPhoto' = 0
    /\ UNCHANGED <<particles, vectors>>
    /\ sinceCapture' = 0
    /\ gestureRef' = "NONE"
    /\ lShapeHoldTime' = lShapeHoldTime
    /\ timers' = (timers \ {t}) \cup {Timer("idle", IDLE_MS, t.photo)}
    /\ ev' = "other"
    /\ lInterrupted' = FALSE
    /\ UNCHANGED <<modeRef, countdown, rCaptureState, rCountdown, effectsPending,
                   captureStateRef, pinchHoldTime, holdBar, zoomedPhoto, isMounted,
                   bootVars, sinceTrigger, sinceTake, nStarts, nTakes>>

(* The 4500 ms timer of takePhoto: the fly sequence. *)
FlyTimer(t) ==
    /\ t.kind = "fly"
    /\ captureState' = SetState(captureState, "FLYING")
    /\ photos' = [photos EXCEPT ![t.photo].visible = TRUE]
    /\ previewingPhoto' = 0
    /\ UNCHANGED <<particles, vectors>>
    /\ sinceCapture' = 0
    /\ gestureRef' = "NONE"
    /\ lShapeHoldTime' = 0
    /\ timers' = (timers \ {t}) \cup {Timer("idle", IDLE_MS, t.photo)}
    /\ ev' = "other"
    /\ lInterrupted' = FALSE
    /\ UNCHANGED <<modeRef, countdown, rCaptureState, rCountdown, effectsPending,
                   captureStateRef, pinchHoldTime, holdBar, zoomedPhoto, isMounted,
                   bootVars, sinceTrigger, sinceTake, nStarts, nTakes>>

(* Mutant: the last timer leaves the state FLYING. *)
IdleTimer_NoReset(t) ==
    /\ t.kind = "idle"
    /\ timers' = timers \ {t}
    /\ ev' = "other"
    /\ UNCHANGED <<modeRef, captureState, countdown, rCaptureState, rCountdown,
                   effectsPending, captureStateRef, sinceCapture, gestureVars, photoVars,
                   isMounted, bootVars, histVars>>

(* The 1000 ms timer started by the fly sequence. *)
IdleTimer(t) ==
    /\ t.kind = "idle"
    /\ captureState' = SetState(captureState, "IDLE")
    /\ timers' = timers \ {t}
    /\ ev' = "other"
    /\ UNCHANGED <<modeRef, countdown, rCaptureState, rCountdown, effectsPending,
                   captureStateRef, sinceCapture, gestureVars, photoVars, isMounted,
                   bootVars, histVars>>

----------------------------------------------------------------------------
(* Prediction loop *)

(* What the landmarks of one hand can give: the 1.2x thumb test implies the
   1.05x one, the other predicates are independent. *)
HandFeatures ==
    {h \in [pinchClose : BOOLEAN, iE : BOOLEAN, mE : BOOLEAN, rE : BOOLEAN,
            pE : BOOLEAN, tE : BOOLEAN, tE_Legacy : BOOLEAN,
            thumbPointingUp : BOOLEAN] : h.tE => h.tE_Legacy}

fingersCurled(h) == ~h.iE /\ ~h.mE /\ ~h.rE /\ ~h.pE

(* Mutant: the fist is tested before the thumbs-up. *)
Classify_FistFirst(h) ==
    IF h.pinchClose /\ h.mE /\ h.rE /\ h.pE THEN "PINCH"
    ELSE IF ~h.iE /\ ~h.mE /\ ~h.rE /\ ~h.pE THEN "FIST"
    ELSE IF fingersCurled(h) /\ h.tE /\ h.thumbPointingUp THEN "THUMBS_UP"
    ELSE IF h.iE /\ h.mE /\ h.rE /\ h.pE THEN "OPEN_PALM"
    ELSE IF h.tE_Legacy /\ h.iE /\ ~h.pE THEN "L_SHAPE"
    ELSE "NONE"

(* Lines 618-629: the if / else-if chain over the predicates. *)
Classify(h) ==
    IF h.pinchClose /\ h.mE /\ h.rE /\ h.pE THEN "PINCH"
    ELSE IF fingersCurled(h) /\ h.tE /\ h.thumbPointingUp THEN "THUMBS_UP"
    ELSE IF ~h.iE /\ ~h.mE /\ ~h.rE /\ ~h.pE THEN "FIST"
    ELSE IF h.iE /\ h.mE /\ h.rE /\ h.pE THEN "OPEN_PALM"
    ELSE IF h.tE_Legacy /\ h.iE /\ ~h.pE THEN "L_SHAPE"
    ELSE "NONE"

(* The symbols the classifier of lines 618-629 can return: all six. *)
ClassifierRange == {Classify(h) : h \in HandFeatures}

(* What the environment shows the camera in one frame: no hand, or a hand the
   classifier maps to a symbol.  Held gestures stop at the model's bounds:
   an L-shape run at MaxLHold frames, a pinch run at MaxPinchHold frames (at
   MaxMixedPinch frames while the L-shape counter is not zero), and a hold
   that would start a capture is shown only while fewer than MaxPhotos
   photos exist. *)
FrameInputs ==
    {"NOHAND"} \cup
    {g \in ClassifierRange :
        /\ (g = "L_SHAPE" => lShapeHoldTime < MaxLHold)
        /\ (g = "L_SHAPE" /\ lShapeHoldTime >= L_HOLD_FRAMES => Len(photos) < MaxPhotos)
        /\ (g = "PINCH" => pinchHoldTime < MaxPinchHold)
        /\ (g = "PINCH" /\ lShapeHoldTime > 0 => pinchHoldTime < MaxMixedPinch)}

(* Mutant: frames are classified during a capture and its cooldown. *)
FrameProcessed_NoSuspension ==
    /\ isMounted
    /\ boot = "ready"
    /\ landmarker

(* The guard of lines 589-595: the frame is classified. *)
FrameProcessed ==
    /\ isMounted
    /\ boot = "ready"
    /\ landmarker
    /\ ~(captureStateRef # "IDLE" \/ sinceCapture < DETECT_COOLDOWN_MS)

(* Math.min((lShapeHoldTimeRef.current / 30) * 100, 100), in 1/30 percent. *)
HoldPct(l) == Min(l * 100, L_HOLD_FRAMES * 100)

(* The photo a pinch may lock: any particle with isPhoto. *)
ZoomChoices == 1..Len(photos)

(* Mutant: FIST sends the scene back to loading. *)
GestureMode_FistLoads(gest) ==
    CASE gest = "OPEN_PALM" -> "SCATTER"
      [] gest = "FIST" -> "LOADING"
      [] gest = "THUMBS_UP" -> "TEXT"

(* Lines 635-643: OPEN_PALM, FIST and THUMBS_UP set the mode, reset the pinch
   counter and clear the zoom. *)
GestureMode(gest) ==
    CASE gest = "OPEN_PALM" -> "SCATTER"
      [] gest = "FIST" -> "TREE"
      [] gest = "THUMBS_UP" -> "TEXT"

(* Mutant: a mode gesture clears the zoom by toggling it. *)
ModeGesture_ToggleZoom(gest) ==
    /\ pinchHoldTime' = 0
    /\ modeRef' = GestureMode(gest)
    /\ zoomedPhoto' = (IF zoomedPhoto = 0 /\ ZoomChoices # {} THEN 1 ELSE 0)
    /\ lInterrupted' = (lInterrupted \/ lShapeHoldTime > 0)
    /\ UNCHANGED <<lShapeHoldTime, holdBar, captureState, countdown,
                   sinceTrigger, nStarts>>

ModeGesture(gest) ==
    /\ pinchHoldTime' = 0
    /\ modeRef' = GestureMode(gest)
    /\ zoomedPhoto' = 0
    /\ lInterrupted' = (lInterrupted \/ lShapeHoldTime > 0)
    /\ UNCHANGED <<lShapeHoldTime, holdBar, captureState, countdown,
                   sinceTrigger, nStarts>>

(* Mutant: a pinch also sends the scene back to the tree. *)
PinchGesture_SetsTree ==
    /\ pinchHoldTime' = pinchHoldTime + 1
    /\ IF pinchHoldTime + 1 > PINCH_HOLD_FRAMES /\ zoomedPhoto = 0
          /\ ZoomChoices # {}
       THEN zoomedPhoto' \in ZoomChoices
       ELSE zoomedPhoto' = zoomedPhoto
    /\ lInterrupted' = (lInterrupted \/ lShapeHoldTime > 0)
    /\ modeRef' = "TREE"
    /\ UNCHANGED <<lShapeHoldTime, holdBar, captureState, countdown,
                   sinceTrigger, nStarts>>

(* Mutant: the threshold is reached, not exceeded. *)
PinchGesture_LocksAtThreshold ==
    /\ pinchHoldTime' = pinchHoldTime + 1
    /\ IF pinchHoldTime + 1 >= PINCH_HOLD_FRAMES /\ zoomedPhoto = 0
          /\ ZoomChoices # {}
       THEN zoomedPhoto' \in ZoomChoices
       ELSE zoomedPhoto' = zoomedPhoto
    /\ lInterrupted' = (lInterrupted \/ lShapeHoldTime > 0)
    /\ UNCHANGED <<modeRef, lShapeHoldTime, holdBar, captureState, countdown,
                   sinceTrigger, nStarts>>

(* Mutant: a pinch past the threshold picks a photo even when one is locked. *)
PinchGesture_Repicks ==
    /\ pinchHoldTime' = pinchHoldTime + 1
    /\ IF pinchHoldTime + 1 > PINCH_HOLD_FRAMES /\ ZoomChoices # {}
       THEN zoomedPhoto' \in ZoomChoices
       ELSE zoomedPhoto' = zoomedPhoto
    /\ lInterrupted' = (lInterrupted \/ lShapeHoldTime > 0)
    /\ UNCHANGED <<modeRef, lShapeHoldTime, holdBar, captureState, countdown,
                   sinceTrigger, nStarts>>

(* Lines 644-649: PINCH counts its frames and past the threshold locks a
   photo, unless one is locked already. *)
PinchGesture ==
    /\ pinchHoldTime' = pinchHoldTime + 1
    /\ IF pinchHoldTime + 1 > PINCH_HOLD_FRAMES /\ zoomedPhoto = 0
          /\ ZoomChoices # {}
       THEN zoomedPhoto' \in ZoomChoices
       ELSE zoomedPhoto' = zoomedPhoto
    /\ lInterrupted' = (lInterrupted \/ lShapeHoldTime > 0)
    /\ UNCHANGED <<modeRef, lShapeHoldTime, holdBar, captureState, countdown,
                   sinceTrigger, nStarts>>

(* Lines 650-659: L_SHAPE resets the pinch counter, counts its frames, calls
   triggerCountdown on every frame past the threshold and sets the bar. *)
LShapeGesture ==
    /\ pinchHoldTime' = 0
    /\ lShapeHoldTime' = lShapeHoldTime + 1
    /\ IF lShapeHoldTime + 1 > L_HOLD_FRAMES
       THEN triggerCountdown("IDLE")
       ELSE UNCHANGED <<captureState, countdown, sinceTrigger, nStarts>>
    /\ holdBar' = HoldPct(lShapeHoldTime + 1)
    /\ UNCHANGED <<modeRef, zoomedPhoto, lInterrupted>>

(* Mutant: NONE forgets the pinch counter. *)
NoGesture_KeepsPinch ==
    /\ lShapeHoldTime' = 0
    /\ holdBar' = 0
    /\ lInterrupted' = FALSE
    /\ UNCHANGED <<modeRef, zoomedPhoto, captureState, countdown,
                   sinceTrigger, nStarts, pinchHoldTime>>

(* Lines 660-664: NONE resets both counters and the bar. *)
NoGesture ==
    /\ lShapeHoldTime' = 0
    /\ pinchHoldTime' = 0
    /\ holdBar' = 0
    /\ lInterrupted' = FALSE
    /\ UNCHANGED <<modeRef, zoomedPhoto, captureState, countdown,
                   sinceTrigger, nStarts>>

(* Lines 631-664: the dispatch on the classified gesture. *)
Dispatch(gest) ==
    /\ gestureRef' = gest
    /\ CASE gest \in {"OPEN_PALM", "FIST", "THUMBS_UP"} -> ModeGesture(gest)
         [] gest = "PINCH" -> PinchGesture
         [] gest = "L_SHAPE" -> LShapeGesture
         [] OTHER -> NoGesture

(* History: what a frame with a hand did.  A frame that calls
   triggerCountdown records whether the call passed its guards and whether
   it found the capture state IDLE; another frame records whether it repeats
   the symbol of the frame just before it. *)
FrameEvent(gest) ==
    IF gest = "L_SHAPE" /\ lShapeHoldTime + 1 > L_HOLD_FRAMES
    THEN IF ~TriggerAccepts("IDLE") THEN "gestureReject"
         ELSE IF captureState = "IDLE" THEN "gestureAccept" ELSE "gestureStale"
    ELSE IF gest = gestureRef /\ ev \in {"frame", "frameRepeat"}
         THEN "frameRepeat" ELSE "frame"

(* One iteration of predictLoop on a frame that passes the guards. *)
ProcessFrame(in) ==
    /\ FrameProcessed
    /\ IF in = "NOHAND"
       THEN /\ holdBar' = 0
            /\ lInterrupted' = (lInterrupted \/ lShapeHoldTime > 0)
            /\ ev' = "nohand"
            /\ UNCHANGED <<modeRef, lShapeHoldTime, pinchHoldTime, gestureRef,
                           zoomedPhoto, captureState, countdown, sinceTrigger, nStarts>>
       ELSE /\ Dispatch(in)
            /\ ev' = FrameEvent(in)
    /\ UNCHANGED <<rCaptureState, rCountdown, effectsPending, captureStateRef,
                   sinceCapture, photoVars, isMounted, bootVars, timers, sinceTake,
                   nTakes>>

(* One iteration of predictLoop that returns before classifying: the video or
   the landmarker is not ready, or the suspension guard of line 592 holds. *)
SkipFrame ==
    /\ isMounted
    /\ ~FrameProcessed
    /\ ev' = "other"
    /\ UNCHANGED <<modeRef, reactVars, sinceCapture, gestureVars, photoVars, isMounted,
                   bootVars, timers, histVars>>

----------------------------------------------------------------------------
(* startSystem and teardown *)

(* getUserMedia resolves and the video plays. *)
CameraAcquired ==
    /\ isMounted
    /\ boot = "starting"
    /\ boot' = "camera"
    /\ ev' = "other"
    /\ UNCHANGED <<modeRef, reactVars, sinceCapture, gestureVars, photoVars, isMounted,
                   landmarker, timers, histVars>>

(* Mutant: the failure handler forgets the deferred fallback. *)
BootFailed_NoFallback ==
    /\ isMounted
    /\ boot \in {"starting", "camera"}
    /\ boot' = "failed"
    /\ ev' = "other"
    /\ UNCHANGED <<modeRef, reactVars, sinceCapture, gestureVars, photoVars, isMounted,
                   landmarker, histVars, timers>>

(* getUserMedia rejects, or the engine fails to load: TREE after 2 s. *)
BootFailed ==
    /\ isMounted
    /\ boot \in {"starting", "camera"}
    /\ boot' = "failed"
    /\ timers' = timers \cup {Timer("bootTree", BOOT_FAIL_MS, 0)}
    /\ ev' = "other"
    /\ UNCHANGED <<modeRef, reactVars, sinceCapture, gestureVars, photoVars, isMounted,
                   landmarker, histVars>>

(* The landmarker is created: gestures are classified from now on, TREE
   after 500 ms. *)
LandmarkerReady ==
    /\ isMounted
    /\ boot = "camera"
    /\ boot' = "ready"
    /\ landmarker' = TRUE
    /\ timers' = timers \cup {Timer("bootTree", BOOT_READY_MS, 0)}
    /\ ev' = "other"
    /\ UNCHANGED <<modeRef, reactVars, sinceCapture, gestureVars, photoVars, isMounted,
                   histVars>>

(* The deferred mode write of startSystem, guarded by isMountedRef. *)
BootTreeTimer(t) ==
    /\ t.kind = "bootTree"
    /\ modeRef' = (IF isMounted THEN "TREE" ELSE modeRef)
    /\ timers' = timers \ {t}
    /\ ev' = "other"
    /\ UNCHANGED <<reactVars, sinceCapture, gestureVars, photoVars, isMounted, bootVars,
                   histVars>>

(* Mutant: a cleanup that cancels neither frame request. *)
Teardown_NoCancel ==
    /\ isMounted
    /\ isMounted' = FALSE
    /\ timers' = {t \in timers : t.kind # "tick"}
    /\ ev' = "teardown"
    /\ UNCHANGED sceneVars
    /\ UNCHANGED <<modeRef, reactVars, sinceCapture, gestureVars, photoVars, bootVars,
                   histVars>>

(* The cleanup of the main effect, with React's unmount: every effect's
   cleanup runs, so the countdown timer is cleared. *)
Teardown ==
    /\ isMounted
    /\ isMounted' = FALSE
    /\ animateRaf' = FALSE
    /\ predictRaf' = FALSE
    /\ timers' = {t \in timers : t.kind # "tick"}
    /\ ev' = "teardown"
    /\ UNCHANGED <<hand, groupTurn>>
    /\ UNCHANGED <<modeRef, reactVars, sinceCapture, gestureVars, photoVars, bootVars,
                   histVars>>

----------------------------------------------------------------------------
(* Time *)

FireTimer(t) ==
    /\ t.rem = 0
    /\ \/ CountdownTick(t)
       \/ DevelopTimer(t)
       \/ FlyTimer(t)
       \/ IdleTimer(t)
       \/ BootTreeTimer(t)

(* How far the clock may move: to the next timer, or one second when none is
   pending. *)
TickSteps ==
    IF timers = {} THEN {COUNTDOWN_TICK_MS}
    ELSE {t.rem : t \in timers}

Tick(d) ==
    /\ ~Busy
    /\ d > 0
    /\ \A t \in timers : t.rem >= d
    /\ timers = {} => \/ sinceCapture < TRIGGER_COOLDOWN_MS
                       \/ sinceTrigger < ClockCap
                       \/ sinceTake < ClockCap
    /\ timers' = {[t EXCEPT !.rem = t.rem - d] : t \in timers}
    /\ sinceCapture' = Min(sinceCapture + d, TRIGGER_COOLDOWN_MS)
    /\ sinceTrigger' = Min(sinceTrigger + d, ClockCap)
    /\ sinceTake' = Min(sinceTake + d, ClockCap)
    /\ ev' = "other"
    /\ UNCHANGED <<modeRef, reactVars, gestureVars, photoVars, isMounted, bootVars,
                   lInterrupted, nStarts, nTakes>>

----------------------------------------------------------------------------
Next ==
    /\ \/ Render
       \/ RunEffects
       \/ ManualTrigger
       \/ \E in \in FrameInputs : ProcessFrame(in)
       \/ SkipFrame
       \/ CameraAcquired
       \/ BootFailed
       \/ LandmarkerReady
       \/ \E t \in timers : FireTimer(t)
       \/ \E d \in TickSteps : Tick(d)
    /\ UNCHANGED sceneVars
    /\ UNCHANGED <<constructVars, holdHist>>

Spec == Init /\ [][Next]_vars

(* The frames that can reach the capture: the L-shape, and what ends a run
   of it.  PINCH and the mode gestures write only the mode, the pinch counter
   and the zoom lock. *)
CaptureInputs == FrameInputs \cap {"NOHAND", "NONE", "L_SHAPE"}

CaptureNext ==
    /\ \/ Render
       \/ RunEffects
       \/ ManualTrigger
       \/ \E in \in CaptureInputs : ProcessFrame(in)
       \/ SkipFrame
       \/ CameraAcquired
       \/ BootFailed
       \/ LandmarkerReady
       \/ \E t \in timers : FireTimer(t)
       \/ \E d \in TickSteps : Tick(d)
    /\ UNCHANGED sceneVars
    /\ UNCHANGED <<constructVars, holdHist>>

(* Every scheduled timer fires, the clock moves on, and React gets to render
   and to flush its effects. *)
Fairness ==
    /\ WF_vars(Render /\ UNCHANGED <<sceneVars, constructVars, holdHist>>)
    /\ WF_vars(RunEffects /\ UNCHANGED <<sceneVars, constructVars, holdHist>>)
    /\ WF_vars((\E t \in timers : FireTimer(t)) /\ UNCHANGED <<sceneVars, constructVars, holdHist>>)
    /\ WF_vars((\E d \in TickSteps : Tick(d)) /\ UNCHANGED <<sceneVars, constructVars, holdHist>>)

LiveSpec == Init /\ [][CaptureNext]_vars /\ Fairness

(* The capture with the L_SHAPE frames counted from each fly sequence on:
   the count starts again where lines 340-351 run and goes up with every
   processed L_SHAPE frame, whatever the hold counter does. *)
CountedFrame(in) ==
    /\ ProcessFrame(in)
    /\ lFramesSinceFly' = (IF in = "L_SHAPE"
                           THEN Min(lFramesSinceFly + 1, L_HOLD_FRAMES + 1)
                           ELSE lFramesSinceFly)

CountedTimer(t) ==
    /\ FireTimer(t)
    /\ lFramesSinceFly' = (IF t.kind = "fly" THEN 0 ELSE lFramesSinceFly)

HoldNext ==
    \/ Render /\ UNCHANGED <<sceneVars, constructVars, holdHist>>
    \/ RunEffects /\ UNCHANGED <<sceneVars, constructVars, holdHist>>
    \/ ManualTrigger /\ UNCHANGED <<sceneVars, constructVars, holdHist>>
    \/ \E in \in CaptureInputs : CountedFrame(in) /\ UNCHANGED <<sceneVars, constructVars>>
    \/ SkipFrame /\ UNCHANGED <<sceneVars, constructVars, holdHist>>
    \/ CameraAcquired /\ UNCHANGED <<sceneVars, constructVars, holdHist>>
    \/ LandmarkerReady /\ UNCHANGED <<sceneVars, constructVars, holdHist>>
    \/ \E t \in timers : CountedTimer(t) /\ UNCHANGED <<sceneVars, constructVars>>
    \/ \E d \in TickSteps : Tick(d) /\ UNCHANGED <<sceneVars, constructVars, holdHist>>

HoldSpec == Init /\ [][HoldNext]_vars

(* The gesture task fed with landmarks: the frame is classified, then
   dispatched.  Runs of L_SHAPE and of PINCH stop at MaxClassifiedRun. *)
ClassifiedFrame(h) ==
    /\ Classify(h) = "L_SHAPE" => lShapeHoldTime < MaxClassifiedRun
    /\ Classify(h) = "PINCH" => pinchHoldTime < MaxClassifiedRun
    /\ hand' = h
    /\ UNCHANGED <<animateRaf, predictRaf, groupTurn>>
    /\ ProcessFrame(Classify(h))

ClassifierNext ==
    \/ CameraAcquired /\ UNCHANGED <<sceneVars, constructVars, holdHist>>
    \/ LandmarkerReady /\ UNCHANGED <<sceneVars, constructVars, holdHist>>
    \/ \E t \in timers : FireTimer(t) /\ UNCHANGED <<sceneVars, constructVars, holdHist>>
    \/ \E d \in TickSteps : Tick(d) /\ UNCHANGED <<sceneVars, constructVars, holdHist>>
    \/ \E h \in HandFeatures : ClassifiedFrame(h) /\ UNCHANGED <<constructVars, holdHist>>

ClassifierSpec == Init /\ [][ClassifierNext]_vars

----------------------------------------------------------------------------
(* The scene: the animation task, the two frame requests and teardown *)

LERP_SPEED == 35
ZOOM_LERP == 150
MaxScenePhotos == 1
MaxTurns == 1

Abs(x) == IF x < 0 THEN -x ELSE x
Sgn(x) == IF x < 0 THEN -1 ELSE IF x > 0 THEN 1 ELSE 0

(* Vector3.lerp on the axis: the step is alpha (per mille) of the distance,
   rounded away from zero. *)
lerp(a, b, alpha) == a + Sgn(b - a) * ((Abs(b - a) * alpha + 999) \div 1000)

(* Mutant: only SCATTER selects the scatter target; LOADING falls to the
   tree. *)
Target_LoadingToTree(p) ==
    IF modeRef = "TEXT" THEN p.textPos
    ELSE IF modeRef = "SCATTER" THEN p.scatterPos
    ELSE p.treePos

(* TARGET SELECTION of animate. *)
Target(p) ==
    IF modeRef = "TEXT" THEN p.textPos
    ELSE IF modeRef = "TREE" THEN p.treePos
    ELSE p.scatterPos

(* The body of particlesRef.current.forEach in animate, from the i-th
   particle on, for a group that has made turn half turns: every write goes
   to the vector object it names. *)
RECURSIVE animateParticles(_, _, _)
animateParticles(i, vs, turn) ==
    IF i > Len(particles) THEN vs
    ELSE LET p == particles[i]
             after ==
                 IF p.photo # 0 /\ previewingPhoto = p.photo
                 THEN IF photos[p.photo].visible
                      THEN [vs EXCEPT
                               ![tempV1] = worldToLocal(vs[PREVIEW_WORLD_POS], turn),
                               ![p.position] = worldToLocal(vs[PREVIEW_WORLD_POS], turn)]
                      ELSE vs
                 ELSE IF p.photo # 0 /\ zoomedPhoto = p.photo
                 THEN [[vs EXCEPT ![tempV1] = worldToLocal(vs[ZOOM_POS], turn)] EXCEPT
                          ![p.position] = lerp(vs[p.position],
                                               worldToLocal(vs[ZOOM_POS], turn), ZOOM_LERP)]
                 ELSE [vs EXCEPT
                          ![p.position] = lerp(vs[p.position], vs[Target(p)], LERP_SPEED)]
         IN animateParticles(i + 1, after, turn)

(* The half turns one frame adds to the group's rotation: none while
   rotationSpeedRef is 0 (the wrist at the middle of the picture), one for
   the frames that take the group half way round.  The group turns at most
   MaxTurns half turns. *)
TurnChoices == {d \in {0, 1} : groupTurn + d <= MaxTurns}

(* One callback of animate: it requests the next frame first and has no
   mounted check; it turns the group, by d half turns, then moves the
   particles. *)
animateBy(d) ==
    /\ animateRaf
    /\ animateRaf' = TRUE
    /\ groupTurn' = groupTurn + d
    /\ vectors' = animateParticles(1, vectors, groupTurn + d)
    /\ ev' = "animate"
    /\ UNCHANGED <<modeRef, reactVars, sinceCapture, gestureVars, previewingPhoto,
                   photos, particles, isMounted, bootVars, timers, histVars, hand,
                   predictRaf>>

animate == \E d \in TurnChoices : animateBy(d)

(* One iteration of predictLoop in which detectForVideo throws: the catch of
   line 669 logs the error, nothing has been written. *)
InferenceThrows ==
    /\ FrameProcessed
    /\ ev' = "throw"
    /\ UNCHANGED <<modeRef, reactVars, sinceCapture, gestureVars, photoVars, isMounted,
                   bootVars, timers, histVars>>

(* What an iteration of the gesture task meets in the scene: no frame to
   classify (the guards of lines 589-595 fail), an inference that throws, or
   a classified frame: the mode gestures, a pinch, no gesture, no hand. *)
SceneInputs ==
    IF FrameProcessed THEN (FrameInputs \ {"L_SHAPE"}) \cup {"THROWS"}
    ELSE {"NOFRAME"}

(* The body of predictLoop past line 584. *)
Iteration(in) ==
    CASE in = "NOFRAME" -> SkipFrame
      [] in = "THROWS" -> InferenceThrows
      [] OTHER -> ProcessFrame(in)

(* Mutant: predictLoop without its try and catch; an error of the inference
   leaves the callback before line 671. *)
predictLoop_ThrowStops(in) ==
    /\ predictRaf
    /\ IF isMounted
       THEN /\ Iteration(in)
            /\ predictRaf' = (in # "THROWS")
       ELSE /\ predictRaf' = FALSE
            /\ ev' = "other"
            /\ UNCHANGED <<modeRef, reactVars, sinceCapture, gestureVars, photoVars,
                           isMounted, bootVars, timers, histVars>>
    /\ UNCHANGED <<hand, animateRaf, groupTurn>>

(* One callback of predictLoop: line 584 returns without a new request once
   the scene is torn down; every other path requests the next frame, at
   line 593 or at line 671. *)
predictLoop(in) ==
    /\ predictRaf
    /\ IF isMounted
       THEN /\ Iteration(in)
            /\ predictRaf' = TRUE
       ELSE /\ predictRaf' = FALSE
            /\ ev' = "other"
            /\ UNCHANGED <<modeRef, reactVars, sinceCapture, gestureVars, photoVars,
                           isMounted, bootVars, timers, histVars>>
    /\ UNCHANGED <<hand, animateRaf, groupTurn>>

(* The Snap button while the scene holds fewer than MaxScenePhotos photos. *)
SceneClick ==
    /\ Len(photos) < MaxScenePhotos
    /\ ManualTrigger

SceneNext ==
    \/ Render /\ UNCHANGED <<sceneVars, constructVars, holdHist>>
    \/ RunEffects /\ UNCHANGED <<sceneVars, constructVars, holdHist>>
    \/ SceneClick /\ UNCHANGED <<sceneVars, constructVars, holdHist>>
    \/ CameraAcquired /\ UNCHANGED <<sceneVars, constructVars, holdHist>>
    \/ LandmarkerReady /\ UNCHANGED <<sceneVars, constructVars, holdHist>>
    \/ \E t \in timers : FireTimer(t) /\ UNCHANGED <<sceneVars, constructVars, holdHist>>
    \/ \E d \in TickSteps : Tick(d) /\ UNCHANGED <<sceneVars, constructVars, holdHist>>
    \/ \E in \in SceneInputs : predictLoop(in) /\ UNCHANGED <<constructVars, holdHist>>
    \/ animateBy(0) /\ UNCHANGED <<constructVars, holdHist>>
    \/ Teardown /\ UNCHANGED <<constructVars, holdHist>>

(* The scene within one half turn of the group: gestures, captures,
   animation frames and teardown. *)
SceneSpec == Init /\ [][SceneNext]_vars

(* The turning scene: start-up, captures by the Snap button and animation
   frames that turn the group. *)
TurnNext ==
    \/ Render /\ UNCHANGED <<sceneVars, constructVars, holdHist>>
    \/ RunEffects /\ UNCHANGED <<sceneVars, constructVars, holdHist>>
    \/ SceneClick /\ UNCHANGED <<sceneVars, constructVars, holdHist>>
    \/ CameraAcquired /\ UNCHANGED <<sceneVars, constructVars, holdHist>>
    \/ LandmarkerReady /\ UNCHANGED <<sceneVars, constructVars, holdHist>>
    \/ \E t \in timers : FireTimer(t) /\ UNCHANGED <<sceneVars, constructVars, holdHist>>
    \/ \E d \in TickSteps : Tick(d) /\ UNCHANGED <<sceneVars, constructVars, holdHist>>
    \/ animate /\ UNCHANGED <<constructVars, holdHist>>

TurnSpec == Init /\ [][TurnNext]_vars

----------------------------------------------------------------------------
(* Scene construction: the text points, their shuffle and their assignment *)

MaxTotalParticles == 3
NumPixels == 2

(* Everything but the construction of the text targets. *)
runVars == <<modeRef, reactVars, sinceCapture, gestureVars, photoVars, isMounted,
             bootVars, timers, histVars, ev, sceneVars, holdHist>>

(* Array(count).fill(new THREE.Vector3()): one vector, in every slot. *)
FilledWithOne(count) == [i \in 1..count |-> Point(1, 0)]

(* getVavePoints(count).  canvas tells how the drawing went: no 2D context,
   no opaque pixel, or pixels; pix[i] is the pixel Math.random picks for the
   i-th point, which is a vector of its own. *)
getVavePoints(count, canvas, pix) ==
    IF canvas = "noContext" THEN FilledWithOne(count)
    ELSE IF canvas = "noPixel" THEN FilledWithOne(count)
    ELSE [i \in 1..count |-> Point(i, pix[i])]

(* const vavePoints = getVavePoints(totalParticles) *)
GenerateTextPoints(canvas, pix) ==
    /\ constructAt = "generate"
    /\ vavePoints' = getVavePoints(totalParticles, canvas, pix)
    /\ vaveBefore' = vavePoints'
    /\ shuffleAt' = totalParticles
    /\ constructAt' = IF totalParticles > 1 THEN "shuffle" ELSE "assign"
    /\ UNCHANGED <<totalParticles, vaveIndex, textPosOf, runVars>>

(* Mutant: the shuffle writes vavePoints[j] over vavePoints[i]. *)
ShuffleStep_Overwrite(j) ==
    /\ constructAt = "shuffle"
    /\ j \in 1..shuffleAt
    /\ vavePoints' = [vavePoints EXCEPT ![shuffleAt] = vavePoints[j]]
    /\ shuffleAt' = shuffleAt - 1
    /\ constructAt' = IF shuffleAt - 1 > 1 THEN "shuffle" ELSE "assign"
    /\ UNCHANGED <<totalParticles, vaveBefore, vaveIndex, textPosOf, runVars>>

(* One round of the shuffle loop: j is Math.floor(Math.random() * (i + 1)),
   the two slots are exchanged. *)
ShuffleStep(j) ==
    /\ constructAt = "shuffle"
    /\ j \in 1..shuffleAt
    /\ vavePoints' = [vavePoints EXCEPT ![shuffleAt] = vavePoints[j],
                                        ![j] = vavePoints[shuffleAt]]
    /\ shuffleAt' = shuffleAt - 1
    /\ constructAt' = IF shuffleAt - 1 > 1 THEN "shuffle" ELSE "assign"
    /\ UNCHANGED <<totalParticles, vaveBefore, vaveIndex, textPosOf, runVars>>

(* getNextTextPos, called for the particle being pushed. *)
getNextTextPos ==
    /\ constructAt = "assign"
    /\ IF vaveIndex < Len(vavePoints)
       THEN /\ textPosOf' = Append(textPosOf, [slot |-> vaveIndex + 1,
                                               point |-> vavePoints[vaveIndex + 1]])
            /\ vaveIndex' = vaveIndex + 1
       ELSE /\ textPosOf' = Append(textPosOf, [slot |-> 0,
                                    point |-> Point(totalParticles + Len(textPosOf) + 1, 0)])
            /\ vaveIndex' = vaveIndex
    /\ constructAt' = IF Len(textPosOf) + 1 < totalParticles THEN "assign" ELSE "done"
    /\ UNCHANGED <<totalParticles, vavePoints, vaveBefore, shuffleAt, runVars>>

(* The main effect at the text points: any particle count up to
   MaxTotalParticles. *)
ConstructInit ==
    /\ Mounted
    /\ totalParticles \in 1..MaxTotalParticles
    /\ constructAt = "generate"
    /\ vavePoints = <<>>
    /\ vaveBefore = <<>>
    /\ shuffleAt = 0
    /\ vaveIndex = 0
    /\ textPosOf = <<>>

ConstructNext ==
    \/ \E canvas \in {"noContext", "noPixel", "pixels"} :
           \E pix \in [1..totalParticles -> 1..NumPixels] :
               GenerateTextPoints(canvas, pix)
    \/ \E j \in 1..MaxTotalParticles : ShuffleStep(j)
    \/ getNextTextPos

ConstructSpec == ConstructInit /\ [][ConstructNext]_vars

----------------------------------------------------------------------------
(* Steps named by the properties *)

(* A step of predictLoop that calls triggerCountdown. *)
GestureTrigger ==
    /\ lShapeHoldTime + 1 > L_HOLD_FRAMES
    /\ ProcessFrame("L_SHAPE")

(* A capture trigger: the Snap click or the L-shape hold over its threshold. *)
TriggerAttempt == ManualTrigger \/ GestureTrigger

----------------------------------------------------------------------------
(* Capture state machine *)

CaptureCycle ==
    {<<"IDLE", "COUNTDOWN">>, <<"COUNTDOWN", "FLASH">>, <<"FLASH", "DEVELOPING">>,
     <<"DEVELOPING", "FLYING">>, <<"FLYING", "IDLE">>}

(* C1: the capture state changes only along the cycle
   IDLE -> COUNTDOWN -> FLASH -> DEVELOPING -> FLYING -> IDLE. *)
C1_CaptureStateFollowsCycle ==
    [][captureState' # captureState =>
         <<captureState, captureState'>> \in CaptureCycle]_vars

(* A whole cycle has been walked: the photo flew and the state is IDLE again. *)
C1_WholeCycleWalked ==
    /\ captureState = "IDLE"
    /\ Len(photos) >= 1
    /\ photos[1].visible
    /\ sinceTake = FLY_MS + IDLE_MS

(* C2: a trigger that arrives while the capture state is not IDLE leaves the
   capture state and the countdown unchanged, on the manual path and on the
   gesture path (whose triggerCountdown sees a stale 'IDLE'). *)
C2_TriggerWhileBusyIsNoOp ==
    [][TriggerAttempt /\ captureState # "IDLE" =>
         captureState' = captureState /\ countdown' = countdown]_vars

(* predictLoop called triggerCountdown while the state was COUNTDOWN and the
   ref still read IDLE; the call passed both guards. *)
C2_StaleGestureTrigger ==
    /\ ev = "gestureStale"
    /\ captureState = "COUNTDOWN"
    /\ captureStateRef = "IDLE"

(* C3 as stated: a trigger attempt within 4000 ms of the previous capture's
   trigger leaves the capture state IDLE. *)
C3_RejectedWithin4sOfTrigger ==
    [][TriggerAttempt /\ nStarts > 0 /\ sinceTrigger < TRIGGER_COOLDOWN_MS =>
         captureState' = "IDLE"]_vars

(* C3 amended: the cooldown runs from the fly sequence of the previous
   capture (lastCaptureTimeRef).  An attempt in IDLE less than 4000 ms after
   it leaves the state IDLE and starts no countdown; an attempt within
   4000 ms of the previous trigger finds the capture in progress and changes
   neither the state nor the countdown. *)
C3_RejectedWithin4sOfFly ==
    [][TriggerAttempt =>
         /\ (captureState = "IDLE" /\ sinceCapture < TRIGGER_COOLDOWN_MS =>
               captureState' = "IDLE" /\ countdown' = countdown /\ nStarts' = nStarts)
         /\ (nStarts > 0 /\ sinceTrigger < TRIGGER_COOLDOWN_MS =>
               /\ captureState \in {"COUNTDOWN", "FLASH", "DEVELOPING"}
               /\ captureState' = captureState
               /\ countdown' = countdown
               /\ nStarts' = nStarts)]_vars

(* A Snap click in IDLE, 1000 ms after the fly sequence, was rejected. *)
C3_ClickRejectedInCooldown ==
    /\ ev = "manualReject"
    /\ captureState = "IDLE"
    /\ rCaptureState = "IDLE"
    /\ sinceCapture < TRIGGER_COOLDOWN_MS
    /\ nTakes > 0

(* C4 as stated, its first half: the trigger does not fire on frames 1-30
   of a run of consecutive L_SHAPE frames, so a countdown a gesture starts
   ends a run of at least 31 such frames. *)
C4_NoFireBeforeFrame31 ==
    [][GestureTrigger /\ nStarts' = nStarts + 1 => ~lInterrupted]_vars

(* C5: the capture that takePhoto starts at t0 is in FLASH at t0, enters
   DEVELOPING at t0 + 150 ms, FLYING at t0 + 4500 ms and IDLE at
   t0 + 5500 ms. *)
C5_CaptureTimeline ==
    /\ [][captureState' # captureState =>
            /\ (captureState' = "FLASH" => nTakes' = nTakes + 1 /\ sinceTake' = 0)
            /\ (captureState' = "DEVELOPING" => sinceTake = 150)
            /\ (captureState' = "FLYING" => sinceTake = 4500)
            /\ (captureState' = "IDLE" => sinceTake = 5500)]_vars
    /\ []((captureState = "FLASH" => sinceTake <= 150)
          /\ (captureState = "DEVELOPING" => sinceTake >= 150 /\ sinceTake <= 4500)
          /\ (captureState = "FLYING" => sinceTake >= 4500 /\ sinceTake <= 5500))

(* The last timer of a capture has just fired, 5500 ms after takePhoto. *)
C5_BackToIdleAt5500 ==
    /\ captureState = "IDLE"
    /\ rCaptureState = "FLYING"
    /\ sinceTake = 5500
    /\ nTakes = 1

(* C6: after an accepted trigger the countdown goes 3, 2, 1, 0, one step per
   second, and takePhoto runs once per countdown, when it reaches 0. *)
C6_CountdownSteps ==
    /\ [][countdown' # countdown =>
            \/ /\ countdown = Null
               /\ countdown' = 3
               /\ TriggerAttempt
               /\ nStarts' = nStarts + 1
            \/ /\ countdown \in 1..3
               /\ countdown' = countdown - 1
               /\ sinceTrigger = (4 - countdown) * 1000
            \/ /\ countdown = 0
               /\ countdown' = Null
               /\ nTakes' = nTakes + 1]_vars
    /\ [][nTakes' # nTakes =>
            /\ nTakes' = nTakes + 1
            /\ captureState = "COUNTDOWN"
            /\ countdown = 0
            /\ sinceTrigger = 3000]_vars
    /\ [](nStarts = nTakes + (IF captureState = "COUNTDOWN" THEN 1 ELSE 0))

(* takePhoto has just run, 3000 ms after the trigger that started the
   second countdown. *)
C6_SecondPhotoTaken ==
    /\ ev = "takePhoto"
    /\ nStarts = 2
    /\ nTakes = 2
    /\ sinceTrigger = 3000
    /\ countdown = Null

ModeGestures == {"OPEN_PALM", "FIST", "THUMBS_UP"}

(* C8: a processed frame sets the mode to SCATTER on OPEN_PALM, to TREE on
   FIST, to TEXT on THUMBS_UP, and leaves it as it was on PINCH, L_SHAPE and
   NONE. *)
C8_ModeAfterFrame ==
    [][\A g \in GestureType :
          ProcessFrame(g) =>
              modeRef' = (CASE g = "OPEN_PALM" -> "SCATTER"
                            [] g = "FIST" -> "TREE"
                            [] g = "THUMBS_UP" -> "TEXT"
                            [] OTHER -> modeRef)]_vars

(* A pinch frame has kept the mode a thumbs-up set. *)
C8_PinchKeepsText ==
    /\ ev = "frame"
    /\ gestureRef = "PINCH"
    /\ modeRef = "TEXT"

(* C9: a frame that repeats the mode gesture of the frame before it leaves
   the mode, the zoom lock and both hold counters as that frame left them. *)
C9_ModeGestureIdempotent ==
    [][\A g \in ModeGestures :
          /\ ev \in {"frame", "frameRepeat"}
          /\ gestureRef = g
          /\ ProcessFrame(g)
          => UNCHANGED <<modeRef, zoomedPhoto, lShapeHoldTime, pinchHoldTime>>]_vars

(* A thumbs-up has been repeated while an L-shape count and a photo exist. *)
C9_ThumbsUpRepeated ==
    /\ ev = "frameRepeat"
    /\ gestureRef = "THUMBS_UP"
    /\ modeRef = "TEXT"
    /\ lShapeHoldTime > 0
    /\ Len(photos) > 0

(* C10 as stated: a frame with a mode gesture leaves both hold counters at 0
   and the zoom lock cleared. *)
C10_ModeGestureResetsBoth ==
    [][\A g \in ModeGestures :
          ProcessFrame(g) =>
              lShapeHoldTime' = 0 /\ pinchHoldTime' = 0 /\ zoomedPhoto' = 0]_vars

(* C11: a processed NONE frame leaves both hold counters at 0, whatever
   they were. *)
C11_NoneResetsBoth ==
    [][ProcessFrame("NONE") => lShapeHoldTime' = 0 /\ pinchHoldTime' = 0]_vars

(* A NONE frame has ended a pinch hold that had locked a photo: the lock is
   still there, the counters are 0. *)
C11_NoneAfterZoomingPinch ==
    /\ ev = "frame"
    /\ gestureRef = "NONE"
    /\ zoomedPhoto # 0
    /\ lShapeHoldTime = 0
    /\ pinchHoldTime = 0

(* C12 as stated: after a processed frame that is not L_SHAPE the L-shape
   counter is 0, and after one that is not PINCH the pinch counter is 0. *)
C12_CountersCountOwnGesture ==
    [][\A g \in GestureType :
          ProcessFrame(g) =>
              /\ (g # "L_SHAPE" => lShapeHoldTime' = 0)
              /\ (g # "PINCH" => pinchHoldTime' = 0)]_vars

(* One iteration of predictLoop while the component is mounted: it returns
   early or processes a frame. *)
PredictIteration ==
    SkipFrame \/ \E in \in FrameInputs : ProcessFrame(in)

(* C13 as stated: while the capture state is not IDLE, or less than 2000 ms
   after the last capture, an iteration of the gesture task changes neither
   the mode, the gesture, a hold counter, the zoom lock nor the capture
   state. *)
C13_SuspendedIterationChangesNothing ==
    [][(captureState # "IDLE" \/ sinceCapture < 2000) /\ PredictIteration
          => UNCHANGED <<modeRef, gestureRef, lShapeHoldTime, pinchHoldTime,
                         zoomedPhoto, captureState>>]_vars

(* C14: a processed PINCH frame adds one to the pinch counter, and locks a
   photo exactly when the new count exceeds 15, nothing is zoomed and a photo
   exists; the photo locked is one of the registered photos. *)
C14_PinchCountsAndLocks ==
    [][ProcessFrame("PINCH") =>
          /\ pinchHoldTime' = pinchHoldTime + 1
          /\ zoomedPhoto' # zoomedPhoto
               <=> (pinchHoldTime + 1 > 15 /\ zoomedPhoto = 0 /\ Len(photos) > 0)
          /\ zoomedPhoto' # 0 => zoomedPhoto' \in 1..Len(photos)]_vars

(* Seventeen PINCH frames with no photo registered: nothing is locked. *)
C14_LongPinchWithoutPhotos ==
    /\ gestureRef = "PINCH"
    /\ pinchHoldTime = 17
    /\ Len(photos) = 0
    /\ zoomedPhoto = 0

(* The conditions of section 4.2, one per symbol, and their order. *)
SymbolHolds(sym, h) ==
    CASE sym = "PINCH" -> h.pinchClose /\ h.mE /\ h.rE /\ h.pE
      [] sym = "THUMBS_UP" -> h.tE /\ ~h.iE /\ ~h.mE /\ ~h.rE /\ ~h.pE /\ h.thumbPointingUp
      [] sym = "FIST" -> ~h.iE /\ ~h.mE /\ ~h.rE /\ ~h.pE
      [] sym = "OPEN_PALM" -> h.iE /\ h.mE /\ h.rE /\ h.pE
      [] sym = "L_SHAPE" -> h.tE_Legacy /\ h.iE /\ ~h.pE

Priority == <<"PINCH", "THUMBS_UP", "FIST", "OPEN_PALM", "L_SHAPE">>

FirstMatch(h) ==
    LET hits == {i \in 1..Len(Priority) : SymbolHolds(Priority[i], h)}
    IN  IF hits = {} THEN "NONE"
        ELSE Priority[CHOOSE i \in hits : \A j \in hits : i <= j]

(* C15: the symbol a classified frame dispatches is the first in the order
   PINCH, THUMBS_UP, FIST, OPEN_PALM, L_SHAPE whose condition holds of the
   landmarks, and NONE when none holds. *)
C15_FirstMatchWins == gestureRef = FirstMatch(hand)

(* Landmarks that satisfy the conditions of THUMBS_UP and of FIST were
   classified, and THUMBS_UP was dispatched. *)
C15_ThumbsUpBeatsFist ==
    /\ SymbolHolds("THUMBS_UP", hand)
    /\ SymbolHolds("FIST", hand)
    /\ gestureRef = "THUMBS_UP"
    /\ modeRef = "TEXT"

(* C16: once the camera or the engine has failed, the mode becomes TREE and
   stays TREE, the failure is final, and no frame is ever classified: the
   gesture, the hold counters and the zoom lock keep their initial values. *)
C16_BootFailureFallsBackToTree ==
    /\ (boot = "failed") ~> (modeRef = "TREE")
    /\ [](boot = "failed" /\ modeRef = "TREE" => [](modeRef = "TREE"))
    /\ [](boot = "failed" => [](boot = "failed"))
    /\ [](boot = "failed" =>
            /\ ~FrameProcessed
            /\ gestureRef = "NONE"
            /\ lShapeHoldTime = 0
            /\ pinchHoldTime = 0
            /\ zoomedPhoto = 0)

(* The fallback has happened, and a capture was taken by hand after it. *)
C16_TreeAfterFailure ==
    /\ boot = "failed"
    /\ modeRef = "TREE"
    /\ ~landmarker
    /\ nTakes >= 1

(* C17 as stated: takePhoto invoked while a resource is missing, or while
   the camera has no frame, appends no particle and previews none. *)
C17_CaptureWithoutResourceIsNoOp ==
    [][/\ RunEffects
       /\ rCaptureState = "COUNTDOWN"
       /\ rCountdown = 0
       /\ ~ResourcesPresent \/ NoCameraFrame
       => UNCHANGED <<photos, previewingPhoto>>]_vars

(* C18 as stated: once the scene is torn down, a capture timer that fires
   changes neither the capture state, nor the previewed-capture lock, nor a
   particle's visibility, nor the last-capture time, nor the current
   gesture, nor a hold counter.  The timers of takePhoto, lines 335-357,
   are not guarded by the mounted flag, so this does not hold. *)
C18_TimersAfterTeardownAreNoOps ==
    [][~isMounted /\ (\E t \in timers : FireTimer(t))
        => UNCHANGED <<captureState, previewingPhoto, photos, sinceCapture,
                       gestureRef, lShapeHoldTime, pinchHoldTime>>]_vars

(* C19: after the scene is torn down, no callback of the animation task and
   no callback of the gesture task runs again. *)
C19_NoIterationAfterTeardown ==
    [][~isMounted => ~animate /\ ~(\E in \in SceneInputs : predictLoop(in))]_vars

(* The torn-down scene, some time after a teardown that found a capture in
   flight and both tasks running. *)
C19_TornDownMidCapture ==
    /\ ~isMounted
    /\ ~animateRaf
    /\ ~predictRaf
    /\ ev = "other"
    /\ captureState = "COUNTDOWN"
    /\ boot = "ready"

(* The identities and the coordinates of the three targets of every particle
   existing before a step. *)
Targets(ps, vs) ==
    [i \in 1..Len(ps) |->
        <<ps[i].treePos, vs[ps[i].treePos], ps[i].scatterPos, vs[ps[i].scatterPos],
          ps[i].textPos, vs[ps[i].textPos]>>]

(* The vectors a frame may write: a particle's live position and the
   scratch vector. *)
LiveVectors == {tempV1} \cup {particles[i].position : i \in 1..Len(particles)}

(* C20: no step changes a target of an existing particle, neither which
   vector it is nor where that vector lies; the vectors that do change are
   live positions or the scratch vector. *)
C20_TargetsNeverChange ==
    [][/\ \A i \in 1..Len(particles) :
              Targets(particles', vectors')[i] = Targets(particles, vectors)[i]
       /\ \A id \in 1..Len(vectors) :
              vectors'[id] # vectors[id] => id \in LiveVectors]_vars

(* A photo was taken and the animation has carried it from the preview to
   its place on the tree. *)
C20_PhotoReachedTree ==
    /\ ev = "animate"
    /\ modeRef = "TREE"
    /\ Len(particles) = 2
    /\ particles[2].photo = 1
    /\ vectors[particles[2].position] = vectors[particles[2].treePos]
    /\ vectors[particles[2].position] # vectors[PREVIEW_WORLD_POS]

(* C21: the particle registry only grows.  Every step keeps the particles
   it finds, in their places; a step appends exactly when takePhoto runs,
   and then exactly one particle, a photo. *)
C21_RegistryOnlyGrows ==
    [][/\ Len(particles') >= Len(particles)
       /\ SubSeq(particles', 1, Len(particles)) = particles
       /\ Len(particles') = Len(particles) + (IF nTakes' # nTakes THEN 1 ELSE 0)
       /\ \A i \in (Len(particles) + 1)..Len(particles') : particles'[i].photo = i - 1
       /\ {i \in 1..Len(particles') : particles'[i].photo = 0}
              = {i \in 1..Len(particles) : particles[i].photo = 0}]_vars

(* The second capture has just appended its photo behind the first one and
   the particle of the scene construction. *)
C21_TwoPhotosAppended ==
    /\ ev = "takePhoto"
    /\ nTakes = 2
    /\ Len(particles) = 3
    /\ particles[1].photo = 0
    /\ particles[2].photo = 1
    /\ particles[3].photo = 2

(* How often each element occurs in a sequence. *)
Occurrences(seq) ==
    [x \in {seq[i] : i \in 1..Len(seq)} |-> Cardinality({i \in 1..Len(seq) : seq[i] = x})]

(* C22: at every round of the shuffle the array holds the points
   getVavePoints returned, each as often as before; a slot of the array is
   handed to one particle at most; and once every particle has its text
   target the points handed out are those of the array, each as often. *)
C22_ShuffleIsPermutation ==
    /\ Occurrences(vavePoints) = Occurrences(vaveBefore)
    /\ \A a, b \in 1..Len(textPosOf) :
           a # b /\ textPosOf[a].slot # 0 => textPosOf[a].slot # textPosOf[b].slot
    /\ \A a \in 1..Len(textPosOf) :
           textPosOf[a].slot # 0 => textPosOf[a].point = vavePoints[textPosOf[a].slot]
    /\ constructAt = "done" =>
           Occurrences([a \in 1..Len(textPosOf) |-> textPosOf[a].point])
               = Occurrences(vaveBefore)

(* Three particles have their text targets, in an order the shuffle has
   changed, two of the points standing on the same pixel. *)
C22_ShuffledAndAssigned ==
    /\ constructAt = "done"
    /\ totalParticles = 3
    /\ vavePoints # vaveBefore
    /\ vaveBefore[1].at = vaveBefore[2].at
    /\ vaveBefore[1].id # vaveBefore[2].id
    /\ Len(textPosOf) = 3

(* C23 as stated: the generator returns exactly as many points as there are
   particles, and no two particles get the same vector object as their text
   target, on every path.  On the two fallback paths every slot holds one
   and the same vector, so this does not hold. *)
C23_TextPointsDistinctObjects ==
    /\ constructAt # "generate" => Len(vavePoints) = totalParticles
    /\ \A a, b \in 1..Len(textPosOf) :
           a # b => textPosOf[a].point.id # textPosOf[b].point.id

(* C24 as stated, in its consequence: a Scene Mode that a gesture has
   selected (any mode but LOADING, while frames are classified) is changed
   only by a frame of one of the three mode gestures.  The landmarker is set
   500 ms before the deferred TREE of startSystem fires, and a gesture
   classified in between is overwritten, so this does not hold. *)
C24_ModeWrittenOnlyByGestures ==
    [][landmarker /\ boot = "ready" /\ modeRef # "LOADING" /\ modeRef' # modeRef
        => \E g \in ModeGestures : ProcessFrame(g)]_vars

(* C25 as stated: at the end of every animation frame the previewed capture
   stands at the preview point, taken to the group's local space for the
   rotation the group has in that frame.  The previewed capture is hidden
   for as long as it is previewed, and animate places visible meshes only,
   so this does not hold once the group has turned. *)
C25_PreviewedPhotoHeldAtPreviewPoint ==
    [][animate /\ previewingPhoto # 0
        => vectors'[particles[previewingPhoto + 1].position]
               = worldToLocal(vectors[PREVIEW_WORLD_POS], groupTurn')]_vars

(* C26: the preview lock is held only in FLASH and DEVELOPING and names the
   photo appended last; the hidden photos are exactly the previewed one; a
   photo is appended hidden; and a photo's visibility changes only once, to
   visible, in the step that takes the capture to FLYING and releases the
   lock. *)
C26_HiddenUntilFlying ==
    /\ [](previewingPhoto # 0 =>
             /\ captureState \in {"FLASH", "DEVELOPING"}
             /\ previewingPhoto = Len(photos))
    /\ [](\A k \in 1..Len(photos) : ~photos[k].visible <=> previewingPhoto = k)
    /\ [][\A k \in 1..Len(photos') :
             IF k > Len(photos) THEN ~photos'[k].visible
             ELSE photos'[k].visible # photos[k].visible =>
                      /\ photos'[k].visible
                      /\ captureState # "FLYING" /\ captureState' = "FLYING"
                      /\ previewingPhoto = k /\ previewingPhoto' = 0]_vars

(* The second capture is being previewed, hidden, while the first photo
   hangs visible in the scene. *)
C26_SecondPhotoPreviewed ==
    /\ Len(photos) = 2
    /\ previewingPhoto = 2
    /\ captureState = "DEVELOPING"
    /\ photos[1].visible
    /\ ~photos[2].visible

(* Where the Scene Mode sends a particle. *)
ModeTarget(p) ==
    CASE modeRef = "TEXT" -> vectors[p.textPos]
      [] modeRef = "TREE" -> vectors[p.treePos]
      [] modeRef \in {"SCATTER", "LOADING"} -> vectors[p.scatterPos]

(* C27: a frame of animate moves every particle that is neither previewed
   nor zoomed one lerp step toward the target of the Scene Mode; it leaves
   the previewed capture where it is, zoomed or not, and moves the zoomed
   photo toward the zoom point instead. *)
C27_FrameMovesTowardModeTarget ==
    [][animate =>
          \A i \in 1..Len(particles) :
              LET p == particles[i]
                  was == vectors[p.position]
                  now == vectors'[p.position]
              IN  IF p.photo # 0 /\ previewingPhoto = p.photo
                  THEN now = was
                  ELSE IF p.photo # 0 /\ zoomedPhoto = p.photo
                  THEN now = lerp(was, worldToLocal(vectors[ZOOM_POS], groupTurn'),
                                  ZOOM_LERP)
                  ELSE now = lerp(was, ModeTarget(p), LERP_SPEED)]_vars

(* In TEXT mode a frame has just been drawn: the ornament has arrived at its
   text point, away from its tree and scatter points, and the zoomed photo
   stands at the zoom point, not at its text point. *)
C27_TextModeWithZoom ==
    /\ ev = "animate"
    /\ modeRef = "TEXT"
    /\ vectors[particles[1].position] = vectors[particles[1].textPos]
    /\ zoomedPhoto = 1
    /\ previewingPhoto = 0
    /\ vectors[particles[2].position] = vectors[ZOOM_POS]
    /\ vectors[particles[2].position] # vectors[particles[2].textPos]

(* C28: while the scene is mounted, a callback of the gesture task leaves a
   frame request pending, whether it classified a frame (with or without a
   hand), returned early or caught an error of the inference. *)
C28_IterationReschedules ==
    [][isMounted /\ (\E in \in SceneInputs : predictLoop(in)) => predictRaf']_vars

(* The inference has just thrown in the middle of a pinch hold, and the next
   frame is requested. *)
C28_RescheduledAfterThrow ==
    /\ ev = "throw"
    /\ isMounted
    /\ predictRaf
    /\ gestureRef = "PINCH"
    /\ pinchHoldTime > 0

(* C29 as stated: a processed frame without a hand resets both hold counters
   and the hold-progress indicator to 0.  The branch of lines 665-668 resets
   the indicator only, so this does not hold. *)
C29_NoHandResetsHolds ==
    [][ProcessFrame("NOHAND")
        => lShapeHoldTime' = 0 /\ pinchHoldTime' = 0 /\ holdBar' = 0]_vars

(* C30 as stated, in the part it singles out: the hold-progress indicator
   lies in 0..100 %, counted in 1/30 of a percent, and is 0 whenever the
   L-shape hold counter is 0.  The fly sequence resets the counter and
   leaves the indicator, so this does not hold. *)
C30_HoldBarFollowsCounter ==
    /\ holdBar \in 0..(100 * L_HOLD_FRAMES)
    /\ lShapeHoldTime = 0 => holdBar = 0

(* C31 as stated: when more particles are built than the glyph has opaque
   pixels, no pixel is the text target of two particles, the particles left
   over standing at the origin.  getVavePoints draws a pixel for every
   point, with repetition, so this does not hold. *)
C31_PixelsHandedOutOnce ==
    constructAt = "done" /\ totalParticles > NumPixels
        => \A x \in 1..NumPixels :
               Cardinality({a \in 1..Len(textPosOf) : textPosOf[a].point.at = x}) <= 1

(* C32: once the mode has left LOADING no step brings it back: every write
   of the mode (the three mode gestures and the boot timers) stores SCATTER,
   TREE or TEXT. *)
C32_ModeNeverBackToLoading ==
    [][/\ modeRef' \in AppMode
       /\ (modeRef # "LOADING" => modeRef' \in {"SCATTER", "TREE", "TEXT"})]_vars

(* The mode was written by a gesture after boot, with a photo taken since. *)
C32_ModeRewritten ==
    modeRef = "TEXT" /\ Len(photos) >= 1 /\ captureState = "IDLE" /\ timers = {}

(* C33: the preview lock and the zoom lock never hold the same particle:
   whenever a capture is previewed, the zoomed photo, if any, is another
   one. *)
C33_LocksNeverCoincide ==
    previewingPhoto # 0 => zoomedPhoto # previewingPhoto

(* A photo was zoomed when the next capture started: both locks are set. *)
C33_BothLocksSet ==
    previewingPhoto = 2 /\ zoomedPhoto = 1

(* C34: a zoomed photo stays zoomed until a processed OPEN_PALM, FIST or
   THUMBS_UP frame clears the lock: no other step (PINCH, L_SHAPE and NONE
   frames, frames without a hand, skipped frames, clicks, renders, timers of
   a capture) changes the zoomed photo once it is set. *)
C34_ZoomHeldUntilModeGesture ==
    [][zoomedPhoto # 0 /\ zoomedPhoto' # zoomedPhoto
          => /\ zoomedPhoto' = 0
             /\ \E g \in ModeGestures : ProcessFrame(g)]_vars

(* Photo 1 was zoomed before the second capture and still is when that
   capture flies: no frame is classified from the shot to this point. *)
C34_ZoomSurvivedCapture ==
    /\ zoomedPhoto = 1
    /\ Len(photos) = 2
    /\ captureState = "FLYING"
    /\ previewingPhoto = 0

(* A timer of a capture (150 ms, 4500 ms or the final 1000 ms) is pending. *)
CapturePending == \E t \in timers : t.kind \in {"develop", "fly", "idle"}

(* triggerCountdown passed its guards and wrote COUNTDOWN and 3. *)
CountdownWritten ==
    ev' \in {"manualAccept", "manualStale", "gestureAccept", "gestureStale"}

(* C35: at most one capture is in flight: the pending capture timers all
   belong to one photo, triggerCountdown never passes its guards while one of
   them is pending, takePhoto never runs while one is pending, and a set
   preview lock changes only by being released. *)
C35_OneCaptureInFlight ==
    /\ [](\A t, u \in timers :
              t.kind \in {"develop", "fly", "idle"} /\ u.kind \in {"develop", "fly", "idle"}
                  => t.photo = u.photo)
    /\ [][/\ (CountdownWritten => ~CapturePending)
          /\ (ev' = "takePhoto" => ~CapturePending /\ previewingPhoto = 0)
          /\ (previewingPhoto # 0 /\ previewingPhoto' # previewingPhoto
                  => previewingPhoto' = 0)]_vars

(* The countdown of a second capture has just started, the first one done. *)
C35_SecondCountdownStarted ==
    /\ ev \in {"manualAccept", "gestureAccept"}
    /\ Len(photos) = 1
    /\ captureState = "COUNTDOWN"
    /\ ~CapturePending

(* C36: after a capture a gesture-triggered countdown needs a fresh hold: the
   fly sequence leaves the L-shape hold counter at 0, and a gesture trigger
   is accepted after a capture only when more than 30 L_SHAPE frames have
   been processed since the fly sequence and 4000 ms have gone by since it. *)
C36_FreshHoldAfterCapture ==
    [][/\ ((\E t \in timers : t.kind = "fly" /\ FireTimer(t)) => lShapeHoldTime' = 0)
       /\ (ev' \in {"gestureAccept", "gestureStale"} /\ nTakes >= 1
               => /\ lFramesSinceFly' > L_HOLD_FRAMES
                  /\ sinceCapture >= TRIGGER_COOLDOWN_MS)]_vars

(* A second capture started by gesture, the first one having been started by
   a held L-shape too. *)
C36_SecondGestureCountdown ==
    /\ ev = "gestureAccept"
    /\ nTakes = 1
    /\ photos # <<>>
    /\ lFramesSinceFly > L_HOLD_FRAMES
    /\ sinceTrigger = 0


====
